---- MODULE Spec2Model ----
(***************************************************************************)
(* ichorCNA_workflow.py: generate() compiles a YAML configuration and the  *)
(* *.bam files of an input directory into a list artifact and a SLURM      *)
(* job-array script; the script's tasks resolve their array index against  *)
(* the list artifact and run filter -> index -> readCounter -> ichorCNA.   *)
(*                                                                         *)
(* Strings (paths, file text) are sequences of one-character strings, so   *)
(* that rstrip, stem, with_suffix, glob, join, sorted, grep, basename and   *)
(* the %%.* expansion are computed, not assumed.                            *)
(***************************************************************************)
EXTENDS Integers, Sequences, FiniteSets, TLC

\* ------------------------------------------------------------------ bounds
MaxRuns == 2        \* successive invocations of generate() on one config path
MaxQueue == 3       \* sbatch.max_queue ranges over 1..MaxQueue

\* ----------------------------------------------------------------- strings
Letters == <<"a","b","c","d","e","f","g","h","i","j","k","l","m",
             "n","o","p","q","r","s","t","u","v","w","x","y","z">>

\* Code point of a character (Python compares str by code point).
Code(c) ==
    CASE c = "\n" -> 10
      [] c = "#" -> 35
      [] c = "-" -> 45
      [] c = "." -> 46
      [] c = "/" -> 47
      [] c = "0" -> 48
      [] c = "1" -> 49
      [] c = "2" -> 50
      [] c = "3" -> 51
      [] c = "4" -> 52
      [] OTHER -> 96 + (CHOOSE k \in 1..26 : Letters[k] = c)

\* a < b for str
RECURSIVE StrLess(_, _)
StrLess(a, b) ==
    IF b = <<>> THEN FALSE
    ELSE IF a = <<>> THEN TRUE
    ELSE IF Head(a) # Head(b) THEN Code(Head(a)) < Code(Head(b))
    ELSE StrLess(Tail(a), Tail(b))

EndsWith(s, suf) ==
    /\ Len(s) >= Len(suf)
    /\ SubSeq(s, Len(s) - Len(suf) + 1, Len(s)) = suf

StartsWith(s, pre) ==
    /\ Len(s) >= Len(pre)
    /\ SubSeq(s, 1, Len(pre)) = pre

\* 1-based index of the last / first occurrence of c in s, 0 if none
RFind(s, c) ==
    LET I == {i \in 1..Len(s) : s[i] = c}
    IN IF I = {} THEN 0 ELSE CHOOSE i \in I : \A j \in I : j <= i

Find(s, c) ==
    LET I == {i \in 1..Len(s) : s[i] = c}
    IN IF I = {} THEN 0 ELSE CHOOSE i \in I : \A j \in I : i <= j

\* str.rstrip("/")
RECURSIVE rstrip(_)
rstrip(s) ==
    IF s # <<>> /\ s[Len(s)] = "/" THEN rstrip(SubSeq(s, 1, Len(s) - 1)) ELSE s

\* "\n".join(seq of str)
RECURSIVE join(_)
join(ss) ==
    IF ss = <<>> THEN <<>>
    ELSE IF Len(ss) = 1 THEN ss[1]
    ELSE ss[1] \o <<"\n">> \o join(Tail(ss))

\* the lines of a text (as grep and mapfile read them): an empty text has none
RECURSIVE Lines(_)
Lines(t) ==
    IF t = <<>> THEN <<>>
    ELSE LET k == Find(t, "\n")
         IN IF k = 0 THEN <<t>>
            ELSE <<SubSeq(t, 1, k - 1)>> \o Lines(SubSeq(t, k + 1, Len(t)))

\* ----------------------------------------------------------------- pathlib
\* Path(s): an empty path is the current directory
Path(s) == IF s = <<>> THEN <<".">> ELSE s

\* Path.name
PathName(p) == SubSeq(p, RFind(p, "/") + 1, Len(p))

\* Path.parent
PathParent(p) ==
    LET k == RFind(p, "/")
    IN IF k = 0 THEN <<".">> ELSE SubSeq(p, 1, k - 1)

\* Path.suffix: from the last dot of the name, unless it leads or ends the name
PathSuffix(p) ==
    LET n == PathName(p)
        k == RFind(n, ".")
    IN IF 1 < k /\ k < Len(n) THEN SubSeq(n, k, Len(n)) ELSE <<>>

\* Path.stem
PathStem(p) ==
    LET n == PathName(p)
    IN SubSeq(n, 1, Len(n) - Len(PathSuffix(p)))

\* Path.with_suffix(suf)
with_suffix(p, suf) ==
    SubSeq(p, 1, Len(p) - Len(PathSuffix(p))) \o suf

\* str(Path(d) / name)
PathJoin(d, name) ==
    IF Path(d) = <<".">> THEN name ELSE Path(d) \o <<"/">> \o name

\* ------------------------------------------------------------- environment
BamExt == <<".","b","a","m">>
Names ==
    { <<"a">> \o BamExt,
      <<"a",".","x">> \o BamExt,
      <<"#","c">> \o BamExt,
      <<"n",".","t","x","t">> }

InDirs == { <<"i","n","/">>, <<".">>, <<"o","u","t">> }
OutDir == <<"o","u","t","/">>
TmpDir == <<"t","m","p">>
LogOut == <<"l","o","g","/","o">>
LogErr == <<"l","o","g","/","e">>

ConfigFiles ==
    { <<"j","o","b",".","y","m","l">>,
      <<"j","o","b",".","s","b","a","t","c","h">>,
      <<"o","u","t","/","j","o","b",".","l","s","t">> }

Caps == {2, 10}
\* which keys the YAML document holds: all of them, all but ichorCNA.paths
\* (the template dereferences it), or all but the workflow group
Shapes == {"full", "no_paths", "no_workflow"}
\* the step at which the file system refuses the run (permissions, disk)
Faults == {"none", "mkdir", "list_write", "script_write"}

Yamls ==
    [ shape : Shapes,
      max_queue : 1..MaxQueue,
      max_concurrent : Caps,
      my_in_dir : InDirs ]

\* ------------------------------------------------------------ file contents
NoFile ==
    [ kind |-> "none", text |-> <<>>, lo |-> 0, hi |-> 0, cap |-> 0,
      list_file |-> <<>>, out_dir |-> <<>>, tmp_dir |-> <<>> ]
YamlFile == [NoFile EXCEPT !.kind = "yaml"]
BamFile == [NoFile EXCEPT !.kind = "bam"]
TextFile(t) == [NoFile EXCEPT !.kind = "text", !.text = t]

VARIABLES
    config_file,      \* generate()'s argument
    yaml,             \* the document config_file held when first read
    fault,            \* the environment's failing step, if any
    files,            \* path -> content, the regular files that exist
    dirs,             \* the directories that exist
    pc,               \* generate()'s position
    runs,             \* invocations started so far
    workflow,         \* the normalized workflow group, once loaded
    bam_files,        \* the enumerated, sorted paths
    list_file,        \* the list artifact's path
    rendered_script,  \* the rendered script text
    err,              \* the exception that ended the run
    wrote,            \* history: the artifacts this run has written
    after,            \* history: (list, script) contents at the start, then at the end of each run
    tree,             \* run time: the paths that exist on the cluster
    task              \* run time: the array tasks

genvars == <<files, dirs, pc, runs, workflow, bam_files, list_file,
             rendered_script, err, wrote, after>>
envvars == <<config_file, yaml, fault>>
runvars == <<tree, task>>
vars == <<config_file, yaml, fault, files, dirs, pc, runs, workflow,
          bam_files, list_file, rendered_script, err, wrote, after, tree, task>>

Read(p) == IF p \in DOMAIN files THEN files[p] ELSE NoFile

\* mutant: the file is opened for appending, so what it held stays
WriteFileAppend(f, p, c) ==
    [q \in DOMAIN f \cup {p} |->
        IF q # p THEN f[q]
        ELSE IF p \in DOMAIN f
             THEN [c EXCEPT !.text = f[p].text \o <<"\n">> \o c.text]
             ELSE c]

\* open(p, "w").write(c)
WriteFile(f, p, c) == [q \in DOMAIN f \cup {p} |-> IF q = p THEN c ELSE f[q]]

\* -------------------------------------------------------------- generate()
Lst == <<".","l","s","t">>
Sbatch == <<".","s","b","a","t","c","h">>

\* Path(d).glob("*.bam"): the entries of d, files and directories, whose name
\* ends in .bam
glob(f, ds, d) ==
    { p \in (DOMAIN f) \cup ds :
        /\ p # Path(d)
        /\ PathParent(p) = Path(d)
        /\ EndsWith(PathName(p), BamExt) }

\* Path.__lt__: by parts; the entries of one directory differ in the last part
PathLess(p, q) ==
    IF PathParent(p) = PathParent(q)
    THEN StrLess(PathName(p), PathName(q))
    ELSE StrLess(PathParent(p), PathParent(q))

\* sorted(S)
RECURSIVE sorted(_)
sorted(S) ==
    IF S = {} THEN <<>>
    ELSE LET m == CHOOSE x \in S : \A y \in S \ {x} : PathLess(x, y)
         IN <<m>> \o sorted(S \ {m})

\* Path(workflow["my_out_dir"]) / f"{yaml_stem}.lst"
ListPath(out_dir, cf) == PathJoin(out_dir, PathStem(cf) \o Lst)

\* config_file.with_suffix(".sbatch")
SbatchPath(cf) == with_suffix(cf, Sbatch)

\* list_file.write_text("\n".join(str(bam) for bam in bam_files))
ListText(bams) == join(bams)

\* mutant: the array's upper bound is the count, not the last index
RenderCountAsLast(wf, cap, total_files, lf) ==
    [ NoFile EXCEPT !.kind = "script",
                    !.lo = 0,
                    !.hi = total_files,
                    !.cap = cap,
                    !.list_file = lf,
                    !.out_dir = wf.my_out_dir,
                    !.tmp_dir = wf.my_tmp_dir ]

\* SBATCH_TEMPLATE.render(...): the values the template inlines
Render(wf, cap, total_files, lf) ==
    [ NoFile EXCEPT !.kind = "script",
                    !.lo = 0,
                    !.hi = total_files - 1,
                    !.cap = cap,
                    !.list_file = lf,
                    !.out_dir = wf.my_out_dir,
                    !.tmp_dir = wf.my_tmp_dir ]

NoWorkflow == [my_in_dir |-> <<>>, my_out_dir |-> <<>>, my_tmp_dir |-> <<>>]

\* what the two artifact paths hold
Snapshot(f) ==
    LET lp == ListPath(rstrip(OutDir), config_file)
        sp == SbatchPath(config_file)
    IN [ list |-> IF lp \in DOMAIN f THEN f[lp] ELSE NoFile,
         script |-> IF sp \in DOMAIN f THEN f[sp] ELSE NoFile ]

\* except Exception: logger.critical; sys.exit(2)
Fail(e) ==
    /\ pc' = "failed"
    /\ err' = e
    /\ after' = Append(after, Snapshot(files))

\* lines 146-154: load the document, look up the three groups, normalize
Load ==
    /\ pc = "start"
    /\ IF Read(config_file).kind # "yaml"
       THEN Fail("ConfigError") /\ UNCHANGED workflow
       ELSE IF yaml.shape = "no_workflow"
       THEN Fail("KeyError") /\ UNCHANGED workflow
       ELSE /\ workflow' = [ my_in_dir |-> rstrip(yaml.my_in_dir),
                             my_out_dir |-> rstrip(OutDir),
                             my_tmp_dir |-> rstrip(TmpDir) ]
            /\ pc' = "mkdirs"
            /\ UNCHANGED <<err, after>>
    /\ UNCHANGED <<files, dirs, runs, bam_files, list_file, rendered_script, wrote>>
    /\ UNCHANGED <<envvars, runvars>>

\* lines 157-161: the output directory and the log folders
Mkdirs ==
    /\ pc = "mkdirs"
    /\ IF fault = "mkdir" \/ Path(workflow.my_out_dir) \in DOMAIN files
       THEN Fail("IOError") /\ UNCHANGED dirs
       ELSE /\ dirs' = dirs \cup { Path(workflow.my_out_dir),
                                   PathParent(LogOut), PathParent(LogErr) }
            /\ pc' = "enumerate"
            /\ UNCHANGED <<err, after>>
    /\ UNCHANGED <<files, runs, workflow, bam_files, list_file, rendered_script, wrote>>
    /\ UNCHANGED <<envvars, runvars>>

\* mutant: the overflow check is >=, so a count equal to max_queue is rejected
EnumerateRejectsEqual ==
    /\ pc = "enumerate"
    /\ bam_files' = sorted(glob(files, dirs, workflow.my_in_dir))
    /\ IF bam_files' = <<>>
       THEN Fail("FileNotFoundError")
       ELSE IF Len(bam_files') >= yaml.max_queue
       THEN Fail("ValueError")
       ELSE pc' = "write_list" /\ UNCHANGED <<err, after>>
    /\ UNCHANGED <<files, dirs, runs, workflow, list_file, rendered_script, wrote>>
    /\ UNCHANGED <<envvars, runvars>>

\* mutant: the list artifact is written before the count is checked
EnumerateWritesFirst ==
    /\ pc = "enumerate"
    /\ bam_files' = sorted(glob(files, dirs, workflow.my_in_dir))
    /\ files' = WriteFile(files, ListPath(workflow.my_out_dir, config_file),
                          TextFile(ListText(bam_files')))
    /\ wrote' = wrote \cup {"list"}
    /\ IF bam_files' = <<>>
       THEN /\ pc' = "failed"
            /\ err' = "FileNotFoundError"
            /\ after' = Append(after, Snapshot(files'))
       ELSE IF Len(bam_files') > yaml.max_queue
       THEN /\ pc' = "failed"
            /\ err' = "ValueError"
            /\ after' = Append(after, Snapshot(files'))
       ELSE pc' = "write_list" /\ UNCHANGED <<err, after>>
    /\ UNCHANGED <<dirs, runs, workflow, list_file, rendered_script>>
    /\ UNCHANGED <<envvars, runvars>>

\* lines 164-168: enumerate, sort, check the count
Enumerate ==
    /\ pc = "enumerate"
    /\ bam_files' = sorted(glob(files, dirs, workflow.my_in_dir))
    /\ IF bam_files' = <<>>
       THEN Fail("FileNotFoundError")
       ELSE IF Len(bam_files') > yaml.max_queue
       THEN Fail("ValueError")
       ELSE pc' = "write_list" /\ UNCHANGED <<err, after>>
    /\ UNCHANGED <<files, dirs, runs, workflow, list_file, rendered_script, wrote>>
    /\ UNCHANGED <<envvars, runvars>>

\* lines 171-173: the list artifact
WriteList ==
    /\ pc = "write_list"
    /\ list_file' = ListPath(workflow.my_out_dir, config_file)
    /\ IF fault = "list_write"
       THEN Fail("IOError") /\ UNCHANGED <<files, wrote>>
       ELSE /\ files' = WriteFile(files, list_file', TextFile(ListText(bam_files)))
            /\ wrote' = wrote \cup {"list"}
            /\ pc' = "render"
            /\ UNCHANGED <<err, after>>
    /\ UNCHANGED <<dirs, runs, workflow, bam_files, rendered_script>>
    /\ UNCHANGED <<envvars, runvars>>

\* lines 177-183: render the template
RenderScript ==
    /\ pc = "render"
    /\ IF yaml.shape = "no_paths"
       THEN Fail("TemplateError") /\ UNCHANGED rendered_script
       ELSE /\ rendered_script' =
                   Render(workflow, yaml.max_concurrent, Len(bam_files), list_file)
            /\ pc' = "write_script"
            /\ UNCHANGED <<err, after>>
    /\ UNCHANGED <<files, dirs, runs, workflow, bam_files, list_file, wrote>>
    /\ UNCHANGED <<envvars, runvars>>

\* lines 185-187: the script
WriteScript ==
    /\ pc = "write_script"
    /\ IF fault = "script_write"
       THEN Fail("IOError") /\ UNCHANGED <<files, wrote>>
       ELSE /\ files' = WriteFile(files, SbatchPath(config_file), rendered_script)
            /\ wrote' = wrote \cup {"script"}
            /\ pc' = "done"
            /\ after' = Append(after, Snapshot(WriteFile(files, SbatchPath(config_file), rendered_script)))
            /\ UNCHANGED err
    /\ UNCHANGED <<dirs, runs, workflow, bam_files, list_file, rendered_script>>
    /\ UNCHANGED <<envvars, runvars>>

\* the operator runs the command again on the same config path
Rerun ==
    /\ pc \in {"done", "failed"}
    /\ runs < MaxRuns
    /\ runs' = runs + 1
    /\ pc' = "start"
    /\ workflow' = NoWorkflow
    /\ bam_files' = <<>>
    /\ list_file' = <<>>
    /\ rendered_script' = NoFile
    /\ err' = "none"
    /\ wrote' = {}
    /\ UNCHANGED <<files, dirs, after>>
    /\ UNCHANGED <<envvars, runvars>>

\* an earlier configuration's artifacts, left at the two artifact paths
StaleList == TextFile(<<"o","l","d">> \o BamExt)
StaleScript == [NoFile EXCEPT !.kind = "script", !.hi = 4, !.cap = 1]

InitFiles(cf, in_dir, entries, stale) ==
    LET inputs == {PathJoin(rstrip(in_dir), n) : n \in entries}
        lp == ListPath(rstrip(OutDir), cf)
        sp == SbatchPath(cf)
        old == IF stale THEN {lp, sp} \ {cf} ELSE {}
    IN [ p \in inputs \cup old \cup {cf} |->
           IF p = cf THEN YamlFile
           ELSE IF p \in inputs THEN BamFile
           ELSE IF p = lp THEN StaleList ELSE StaleScript ]

Init ==
    /\ config_file \in ConfigFiles
    /\ yaml \in Yamls
    /\ fault \in Faults
    /\ \E entries \in SUBSET Names, stale \in BOOLEAN :
          files = InitFiles(config_file, yaml.my_in_dir, entries, stale)
    /\ dirs = { <<".">>, Path(rstrip(yaml.my_in_dir)), PathParent(config_file) }
    /\ pc = "start"
    /\ runs = 1
    /\ workflow = NoWorkflow
    /\ bam_files = <<>>
    /\ list_file = <<>>
    /\ rendered_script = NoFile
    /\ err = "none"
    /\ wrote = {}
    /\ after = <<Snapshot(files)>>
    /\ tree = {}
    /\ task = <<>>

Next ==
    \/ Load
    \/ Mkdirs
    \/ Enumerate
    \/ WriteList
    \/ RenderScript
    \/ WriteScript
    \/ Rerun

Spec == Init /\ [][Next]_vars

\* ------------------------------------------- the script's index resolution
\* lines 104-105: mapfile -t BAM_FILES < <(grep -v '^#' list_file)
mapfile(text) == SelectSeq(Lines(text), LAMBDA l : ~StartsWith(l, <<"#">>))

\* "${BAM_FILES[$SLURM_ARRAY_TASK_ID]}": an unset element expands to nothing
ArrayElem(arr, i) == IF i + 1 <= Len(arr) THEN arr[i + 1] ELSE <<>>

\* the input path task i of script s works on
Resolve(f, s, i) ==
    LET lf == IF s.list_file \in DOMAIN f THEN f[s.list_file] ELSE NoFile
    IN ArrayElem(mapfile(lf.text), i)

\* ------------------------------------------------- the generated script
\* the script file sbatch is given
TheScript == Read(SbatchPath(config_file))
\* SLURM_JOB_ID: the scheduler gives every task of an array its own job id
SLURM_JOB_ID(i) == i + 1
Digit(n) == <<"0","1","2","3","4">>[n + 1]

\* basename p suf
basename(p, suf) ==
    LET n == PathName(rstrip(p))
    IN IF EndsWith(n, suf) /\ n # suf THEN SubSeq(n, 1, Len(n) - Len(suf)) ELSE n

\* ${SAMPLE_ID%%.*}: drop the longest suffix that starts with a dot
CutAtFirstDot(s) ==
    LET k == Find(s, ".") IN IF k = 0 THEN s ELSE SubSeq(s, 1, k - 1)

\* lines 108-109
SampleId(input) == CutAtFirstDot(basename(input, BamExt))

\* line 110: "{{ workflow.my_tmp_dir }}/${SAMPLE_ID}-${SLURM_JOB_ID}"
SampleTmpBase(s, id, job) == s.tmp_dir \o <<"/">> \o id \o <<"-", Digit(job)>>

\* lines 87, 111: "{{ workflow.my_out_dir }}/${SAMPLE_ID}"
SampleOutDir(s, id) == rstrip(s.out_dir \o <<"/">> \o id)

\* line 112: mktemp -d -p base, a name no other call returns
MkTemp(base, i) == base \o <<"/","t","m","p",".", Digit(i)>>

\* line 47 and lines 63-64
FilteredBam(r) == r.TMP_DIR \o <<"/">> \o r.SAMPLE_ID \o <<".","f",".","b","a","m">>
WigFile(r) == r.TMP_DIR \o <<"/">> \o r.SAMPLE_ID \o <<".","w","i","g">>
Tmp(p) == p \o <<".","t","m","p">>
Bai(p) == p \o <<".","b","a","i">>
\* a result file ichorCNA leaves in --outDir
CnaFile(r) == r.OUT_DIR \o <<"/">> \o r.SAMPLE_ID \o <<".","c","n","a">>

\* p is d or lies below it
Under(p, d) == p = d \/ StartsWith(p, d \o <<"/">>)

\* rm -rf ds
rm_rf(t, ds) == {p \in t : \A d \in ds : ~Under(p, d)}

Stages == <<"filter", "mv_bam", "index", "readCounter", "mv_wig", "ichorCNA">>

Idle ==
    [ pc |-> "idle", job |-> 0, input_bam |-> <<>>, SAMPLE_ID |-> <<>>,
      SAMPLE_TMP_BASE |-> <<>>, TMP_DIR |-> <<>>, OUT_DIR |-> <<>>,
      trap |-> FALSE, made |-> {}, ran |-> <<>>, ok |-> {}, status |-> -1,
      leftover |-> {} ]

Running == {i \in DOMAIN task : task[i].pc \notin {"idle", "exited"}}

\* line 114: what the EXIT trap removes, if it has been installed
AtExit(r, t) ==
    IF r.trap THEN rm_rf(t, {r.TMP_DIR, r.SAMPLE_TMP_BASE}) ELSE t

\* the shell exits with status st: set -e after a failed command, exit 1, or
\* the end of the script
Exit(i, r, t, st) ==
    LET t2 == AtExit(r, t)
    IN /\ tree' = t2
       /\ task' = [task EXCEPT ![i] =
              [r EXCEPT !.pc = "exited", !.status = st, !.leftover = r.made \cap t2]]

Goto(i, r, t, to) ==
    /\ tree' = t
    /\ task' = [task EXCEPT ![i] = [r EXCEPT !.pc = to]]

\* line 28: the scheduler starts task i while fewer than cap tasks run;
\* lines 104-110: the script reads the list and derives its names
Launch(i) ==
    /\ i \in DOMAIN task
    /\ task[i].pc = "idle"
    /\ Cardinality(Running) < TheScript.cap
    /\ LET s == TheScript
           job == SLURM_JOB_ID(i)
           input == Resolve(files, s, i)
           id == SampleId(input)
       IN task' = [task EXCEPT ![i] =
              [Idle EXCEPT !.pc = "mkdir",
                           !.job = job,
                           !.input_bam = input,
                           !.SAMPLE_ID = id,
                           !.SAMPLE_TMP_BASE = SampleTmpBase(s, id, job),
                           !.OUT_DIR = SampleOutDir(s, id)]]
    /\ UNCHANGED <<tree, envvars, genvars>>

\* line 111: mkdir -p base out || exit 1
MkdirP(i) ==
    /\ i \in DOMAIN task
    /\ task[i].pc = "mkdir"
    /\ LET r == task[i]
           base == r.SAMPLE_TMP_BASE
           mk == [r EXCEPT !.made = {base} \ tree]
       IN \/ Goto(i, mk, tree \cup {base, r.OUT_DIR}, "mktemp")
          \/ Exit(i, r, tree, 1)
          \/ Exit(i, mk, tree \cup {base}, 1)
    /\ UNCHANGED <<envvars, genvars>>

\* line 112: TMP_DIR=$(mktemp -d -p base) || exit 1
Mktemp(i) ==
    /\ i \in DOMAIN task
    /\ task[i].pc = "mktemp"
    /\ LET r == task[i]
           d == MkTemp(r.SAMPLE_TMP_BASE, i)
       IN \/ /\ r.SAMPLE_TMP_BASE \in tree
             /\ Goto(i, [r EXCEPT !.TMP_DIR = d, !.made = r.made \cup {d}],
                     tree \cup {d}, "trap")
          \/ Exit(i, r, tree, 1)
    /\ UNCHANGED <<envvars, genvars>>

\* line 114: trap 'rm -rf "${TMP_DIR}" "${SAMPLE_TMP_BASE}"' EXIT ERR
Trap(i) ==
    /\ i \in DOMAIN task
    /\ task[i].pc = "trap"
    /\ Goto(i, [task[i] EXCEPT !.trap = TRUE], tree, "filter")
    /\ UNCHANGED <<envvars, genvars>>

\* mutant: without set -e a failed command does not end the shell
StageNoErrexit(i, at, name, needs, makes, gone, to) ==
    /\ i \in DOMAIN task
    /\ task[i].pc = at
    /\ LET r == [task[i] EXCEPT !.ran = Append(@, name)]
       IN \/ /\ needs \subseteq tree
             /\ IF to = "exit"
                THEN Exit(i, [r EXCEPT !.ok = @ \cup {name}],
                          (tree \ gone) \cup makes, 0)
                ELSE Goto(i, [r EXCEPT !.ok = @ \cup {name}],
                          (tree \ gone) \cup makes, to)
          \/ IF to = "exit" THEN Exit(i, r, tree, 1) ELSE Goto(i, r, tree, to)
    /\ UNCHANGED <<envvars, genvars>>

\* one command of process_sample under set -eo pipefail: it starts, and either
\* succeeds (needs: the paths it reads; makes, gone: its effect on the tree)
\* or fails, which ends the shell
Stage(i, at, name, needs, makes, gone, to) ==
    /\ i \in DOMAIN task
    /\ task[i].pc = at
    /\ LET r == [task[i] EXCEPT !.ran = Append(@, name)]
       IN \/ /\ needs \subseteq tree
             /\ IF to = "exit"
                THEN Exit(i, [r EXCEPT !.ok = @ \cup {name}],
                          (tree \ gone) \cup makes, 0)
                ELSE Goto(i, [r EXCEPT !.ok = @ \cup {name}],
                          (tree \ gone) \cup makes, to)
          \/ Exit(i, r, tree, 1)
    /\ UNCHANGED <<envvars, genvars>>

\* lines 50-54: sambamba view -o filtered.tmp input
Filter(i) ==
    LET r == task[i]
    IN Stage(i, "filter", "filter", {r.input_bam, r.TMP_DIR},
             {Tmp(FilteredBam(r))}, {}, "mv_bam")

\* line 55: mv filtered.tmp filtered
MvBam(i) ==
    LET r == task[i]
    IN Stage(i, "mv_bam", "mv_bam", {Tmp(FilteredBam(r))},
             {FilteredBam(r)}, {Tmp(FilteredBam(r))}, "index")

\* line 57: sambamba index filtered
Index(i) ==
    LET r == task[i]
    IN Stage(i, "index", "index", {FilteredBam(r)},
             {Bai(FilteredBam(r))}, {}, "readCounter")

\* lines 59-63: readCounter filtered > wig.tmp
ReadCounter(i) ==
    LET r == task[i]
    IN Stage(i, "readCounter", "readCounter", {FilteredBam(r), r.TMP_DIR},
             {Tmp(WigFile(r))}, {}, "mv_wig")

\* line 64: mv wig.tmp wig
MvWig(i) ==
    LET r == task[i]
    IN Stage(i, "mv_wig", "mv_wig", {Tmp(WigFile(r))},
             {WigFile(r)}, {Tmp(WigFile(r))}, "ichorCNA")

\* lines 67-101, then the end of main and of the script
IchorCNA(i) ==
    LET r == task[i]
    IN Stage(i, "ichorCNA", "ichorCNA", {WigFile(r), r.OUT_DIR},
             {CnaFile(r)}, {}, "exit")

\* the state a successful generate() leaves, and the job array submitted
GeneratedFiles(cf, y, entries) ==
    LET f0 == InitFiles(cf, y.my_in_dir, entries, FALSE)
        wf == [ my_in_dir |-> rstrip(y.my_in_dir),
                my_out_dir |-> rstrip(OutDir),
                my_tmp_dir |-> rstrip(TmpDir) ]
        bams == sorted(glob(f0, {}, wf.my_in_dir))
        lf == ListPath(wf.my_out_dir, cf)
        f1 == WriteFile(f0, lf, TextFile(ListText(bams)))
    IN WriteFile(f1, SbatchPath(cf), Render(wf, y.max_concurrent, Len(bams), lf))

InitTask ==
    /\ config_file = <<"j","o","b",".","y","m","l">>
    /\ yaml \in {y \in Yamls : y.shape = "full" /\ y.max_queue = MaxQueue}
    /\ fault = "none"
    /\ \E entries \in (SUBSET Names) \ {{}} :
          /\ \E n \in entries : EndsWith(n, BamExt)
          /\ files = GeneratedFiles(config_file, yaml, entries)
    /\ dirs = { <<".">>, Path(rstrip(yaml.my_in_dir)), rstrip(OutDir),
                PathParent(LogOut) }
    /\ pc = "done"
    /\ runs = 1
    /\ workflow = [ my_in_dir |-> rstrip(yaml.my_in_dir),
                    my_out_dir |-> rstrip(OutDir),
                    my_tmp_dir |-> rstrip(TmpDir) ]
    /\ bam_files = sorted(glob(files, {}, workflow.my_in_dir))
    /\ list_file = ListPath(workflow.my_out_dir, config_file)
    /\ rendered_script = files[SbatchPath(config_file)]
    /\ err = "none"
    /\ wrote = {"list", "script"}
    /\ after = <<Snapshot(files)>>
    /\ tree = dirs \cup {p \in DOMAIN files : files[p].kind = "bam"}
    /\ task = [i \in rendered_script.lo..rendered_script.hi |-> Idle]

NextTask ==
    \E i \in 0..MaxQueue :
        \/ Launch(i)
        \/ MkdirP(i)
        \/ Mktemp(i)
        \/ Trap(i)
        \/ Filter(i)
        \/ MvBam(i)
        \/ Index(i)
        \/ ReadCounter(i)
        \/ MvWig(i)
        \/ IchorCNA(i)

TaskSpec == InitTask /\ [][NextTask]_vars

\* ------------------------------------------------------------------ claims
TheList == Read(ListPath(rstrip(OutDir), config_file))
\* the *.bam entries of the configured input directory, counted from the
\* directory itself
Matching == glob(files, dirs, rstrip(yaml.my_in_dir))
Count == Cardinality(Matching)

\* C1: after a successful run, for every index i in [0, count) the script's
\* index resolution (list artifact, minus '#' lines, element i) yields exactly
\* the i-th enumerated path.
C1_IndexRoundTrip ==
    pc = "done" =>
        \A i \in 0..(Len(bam_files) - 1) :
            Resolve(files, TheScript, i) = bam_files[i + 1]

\* C2: the generated script declares the array 0..count-1 with the configured
\* concurrency cap.
C2_ArraySpan ==
    pc = "done" =>
        /\ TheScript.kind = "script"
        /\ TheScript.lo = 0
        /\ TheScript.hi = Count - 1
        /\ TheScript.cap = yaml.max_concurrent

C2_Witness ==
    /\ pc = "done"
    /\ Count = 3
    /\ yaml.max_concurrent = 10
    /\ TheScript.hi = 2

\* the run got past the count checks
Accepted ==
    \/ pc \in {"write_list", "render", "write_script", "done"}
    \/ pc = "failed" /\ err \in {"IOError", "TemplateError"} /\ bam_files # <<>>
\* the run has enumerated
Enumerated == Accepted \/ (pc = "failed" /\ err \in {"FileNotFoundError", "ValueError"})

\* C3: a run that has enumerated is accepted iff 1 <= count <= max_queue;
\* count 0 ends in the empty-input error and count > max_queue in the
\* queue-overflow error.
C3_CountBoundary ==
    Enumerated =>
        /\ Accepted <=> (1 <= Count /\ Count <= yaml.max_queue)
        /\ err = "FileNotFoundError" <=> Count = 0
        /\ err = "ValueError" <=> Count > yaml.max_queue

C3_Witness ==
    /\ Accepted
    /\ Count = yaml.max_queue
    /\ Count = 2

\* C4: a run rejected by a count check has written nothing, and both artifact
\* paths hold what they held when the run started.
C4_RejectedWritesNothing ==
    (pc = "failed" /\ err \in {"FileNotFoundError", "ValueError"}) =>
        /\ wrote = {}
        /\ Snapshot(files) = after[runs]

C4_Witness ==
    /\ pc = "failed"
    /\ err = "ValueError"
    /\ Count = yaml.max_queue + 1
    /\ TheList = StaleList
    /\ TheScript = StaleScript

\* C5: every terminated run has written both artifacts or neither.
C5_NoPartialSuccess ==
    pc \in {"done", "failed"} => wrote \in {{}, {"list", "script"}}

\* C6: after a second (and any later) run on the same config path and input
\* directory, the list artifact and the script hold what they held after the
\* previous run.
C6_Idempotent ==
    \A k \in 2..(Len(after) - 1) : after[k + 1] = after[k]

C6_Witness ==
    /\ Len(after) = 3
    /\ runs = 2
    /\ pc = "done"
    /\ after[3].list.kind = "text"
    /\ after[3].script.kind = "script"
    /\ Len(bam_files) >= 2

\* C10: no run overwrites its configuration file or an enumerated input file.
C10_InputsNeverClobbered ==
    /\ Read(config_file) = YamlFile
    /\ \A p \in Matching \cap DOMAIN files : files[p] = BamFile

\* the paths a task reads, creates, writes or removes
Uses(r) ==
    {r.input_bam, r.SAMPLE_TMP_BASE, r.OUT_DIR}
        \cup (IF r.TMP_DIR = <<>> THEN {} ELSE {r.TMP_DIR})

\* C7: two tasks of one submission that run at the same time with distinct
\* array indices share no input file, temporary directory or output directory.
C7_TaskIsolation ==
    \A i \in Running : \A j \in Running \ {i} :
        Uses(task[i]) \cap Uses(task[j]) = {}

\* C8: when a task has terminated, normally or by a failure at any step, no
\* temporary directory it created exists any more.
C8_CleanupOnExit ==
    \A i \in DOMAIN task : task[i].pc = "exited" => task[i].leftover = {}

\* C9: in every task the commands of process_sample start in the order filter,
\* rename, index, depth extraction, rename, model; each one starts only after
\* all earlier ones succeeded; the filtered file and the read-count profile
\* exist at their final paths only if the stage that produces them succeeded;
\* and the sample's output directory exists once the model stage has started.
C9_StageOrder ==
    \A i \in DOMAIN task :
        LET r == task[i]
        IN /\ r.ran = SubSeq(Stages, 1, Len(r.ran))
           /\ \A k \in 1..(Len(r.ran) - 1) : r.ran[k] \in r.ok
           /\ (r.TMP_DIR # <<>> /\ FilteredBam(r) \in tree) => "filter" \in r.ok
           /\ (r.TMP_DIR # <<>> /\ WigFile(r) \in tree) => "readCounter" \in r.ok
           /\ Len(r.ran) = 6 => r.OUT_DIR \in tree

C9_Witness ==
    \E i, j \in DOMAIN task :
        /\ task[i].pc = "exited" /\ task[i].status = 0 /\ task[i].ran = Stages
        /\ CnaFile(task[i]) \in tree
        /\ task[j].pc = "exited" /\ task[j].status = 1
        /\ task[j].ran = <<"filter", "mv_bam", "index">>
        /\ task[j].ok = {"filter", "mv_bam"}

====
